---- MODULE Spec2Model ----
(***************************************************************************)
(* A model of levels/splitter.py: the script reads a text file, splits it  *)
(* with re.split(';.*\n\n', s), creates the output directory and writes    *)
(* every segment that is neither '' nor all whitespace to <i+1>.txt.       *)
(*                                                                         *)
(* Text is a sequence of one-character strings.  The output directory is   *)
(* a function from the ordinal in a file's name (the k of "k.txt") to the  *)
(* file's content.                                                         *)
(***************************************************************************)
EXTENDS Integers, Sequences, FiniteSets, TLC

\* Longest input file the model reads.
MaxLen == 8

\* The characters of the modelled texts: the marker, the newline, a blank
\* that is not a newline, and an ordinary character.
Chars == {";", "\n", " ", "A"}

\* What str.isspace() counts as whitespace, among the characters above.
Whitespace == {" ", "\n", "\t", "\r"}

\* The text of a file that only another actor writes; no segment equals it.
EnvContent == <<"E">>

Inputs == UNION {[1..n -> Chars] : n \in 0..MaxLen}

VARIABLES
    inputStatus,  \* "ok", "missing" or "denied": what open(file_name, 'r') meets
    inputData,    \* the text the input file gives a reader (none unless "ok")
    dirExists,    \* whether dir_name exists
    files,        \* the files of dir_name: ordinal |-> content
    pc,           \* the statement about to run
    err,          \* the exception that ended the run, or "none"
    s,            \* the buffer f.read() returned
    levels,       \* the result of re.split
    i,            \* the loop variable
    of,           \* the ordinal of the file held open by `of`, or 0
    envMade       \* the ordinals of the files another actor has created

vars == <<inputStatus, inputData, dirExists, files, pc, err, s, levels, i, of,
          envMade>>

NoFiles == [k \in {} |-> <<>>]

-----------------------------------------------------------------------------
(* The pattern p = ';.*\n\n' and re.split.                                 *)

\* The longest run of characters other than newline starting at position j:
\* what a greedy '.*' consumes first.
RECURSIVE DotStarMax(_, _)
DotStarMax(str, j) ==
    IF j <= Len(str) /\ str[j] # "\n" THEN 1 + DotStarMax(str, j + 1) ELSE 0

\* Variant of TwoNewlines: a pattern that ends with a single newline.
TwoNewlines_One(str, j) ==
    j <= Len(str) /\ str[j] = "\n"

\* The literal tail '\n\n' of the pattern at position j.
TwoNewlines(str, j) ==
    j + 1 <= Len(str) /\ str[j] = "\n" /\ str[j + 1] = "\n"

\* The pattern tried at position j: ';', then '.*' greedy, giving back one
\* character at a time until '\n\n' follows.  The position just after the
\* match, or 0 when there is none.
MatchEnd(str, j) ==
    IF j > Len(str) \/ str[j] # ";" THEN 0
    ELSE LET most == DotStarMax(str, j + 1)
             fits == {n \in 0..most : TwoNewlines(str, j + 1 + n)}
         IN  IF fits = {} THEN 0
             ELSE (j + 1 + (CHOOSE n \in fits : \A m \in fits : m <= n)) + 2

\* The scan of the pattern: the leftmost position >= pos where it matches,
\* or 0.
RECURSIVE Search(_, _)
Search(str, pos) ==
    IF pos > Len(str) THEN 0
    ELSE IF MatchEnd(str, pos) # 0 THEN pos
    ELSE Search(str, pos + 1)

\* Variant of SplitSpans: the text after the last match is dropped when
\* it is empty.
RECURSIVE SplitSpans_DropTail(_, _)
SplitSpans_DropTail(str, last) ==
    LET j == Search(str, last)
    IN  IF j = 0
        THEN IF last > Len(str) THEN << >> ELSE << <<last, Len(str)>> >>
        ELSE << <<last, j - 1>> >> \o SplitSpans_DropTail(str, MatchEnd(str, j))

\* re.split's loop: search from `last`, emit the text up to the match,
\* go on after the match; the text after the last match is emitted at
\* the end.  Each segment is given as <<first, last>> positions in str.
RECURSIVE SplitSpans(_, _)
SplitSpans(str, last) ==
    LET j == Search(str, last)
    IN  IF j = 0 THEN << <<last, Len(str)>> >>
        ELSE << <<last, j - 1>> >> \o SplitSpans(str, MatchEnd(str, j))

re_split(str) ==
    LET spans == SplitSpans(str, 1)
    IN  [m \in 1..Len(spans) |-> SubSeq(str, spans[m][1], spans[m][2])]

-----------------------------------------------------------------------------
(* The write loop's helpers.                                               *)

\* str.isspace(): at least one character and all of them whitespace.
isspace(str) == Len(str) > 0 /\ \A c \in 1..Len(str) : str[c] \in Whitespace

\* Variant of Skipped: only the empty segment is skipped.
Skipped_EmptyOnly(seg) == seg = << >>

\* The test of the loop: levels[i] == '' or levels[i].isspace().
Skipped(seg) == seg = << >> \/ isspace(seg)

\* Variant of FileName: the 0-based index is used as the name.
FileName_ZeroBased(n) == n

\* The ordinal in the name str(i + 1) + ".txt".
FileName(n) == n + 1

\* os.linesep on the platform of the script's shebang line.
LineSep == <<"\n">>

\* Variant of TextWrite: the segment is stripped of trailing newlines.
RECURSIVE TextWrite_Strip(_)
TextWrite_Strip(str) ==
    IF str # << >> /\ str[Len(str)] = "\n"
    THEN TextWrite_Strip(SubSeq(str, 1, Len(str) - 1))
    ELSE str

\* What a text-mode write puts in the file: each '\n' becomes os.linesep.
RECURSIVE TextWrite(_)
TextWrite(str) ==
    IF str = << >> THEN << >>
    ELSE (IF Head(str) = "\n" THEN LineSep ELSE <<Head(str)>>) \o TextWrite(Tail(str))

Put(fs, k, data) == [j \in DOMAIN fs \cup {k} |-> IF j = k THEN data ELSE fs[j]]

-----------------------------------------------------------------------------
(* The run.                                                                *)

Init ==
    /\ inputStatus \in {"ok", "missing", "denied"}
    /\ inputData \in (IF inputStatus = "ok" THEN Inputs ELSE {<< >>})
    /\ dirExists \in BOOLEAN
    /\ files \in (IF dirExists THEN {NoFiles, (1 :> EnvContent)} ELSE {NoFiles})
    /\ pc = "read"
    /\ err = "none"
    /\ s = << >>
    /\ levels = << >>
    /\ i = 0
    /\ of = 0
    /\ envMade = {}

\* Variant of ReadInput: an input that cannot be opened reads as empty.
ReadInput_FailAsEmpty ==
    /\ pc = "read"
    /\ s' = IF inputStatus = "ok" THEN inputData ELSE << >>
    /\ pc' = "split"
    /\ UNCHANGED <<inputStatus, inputData, dirExists, files, err, levels, i, of, envMade>>

\* with open(file_name, 'r') as f: s = f.read()
ReadInput ==
    /\ pc = "read"
    /\ IF inputStatus = "ok"
       THEN /\ s' = inputData
            /\ pc' = "split"
            /\ err' = err
       ELSE /\ s' = s
            /\ pc' = "error"
            /\ err' = IF inputStatus = "missing"
                      THEN "FileNotFoundError" ELSE "PermissionError"
    /\ UNCHANGED <<inputStatus, inputData, dirExists, files, levels, i, of, envMade>>

\* levels = re.split(p, s)
Split ==
    /\ pc = "split"
    /\ levels' = re_split(s)
    /\ pc' = "mkdir"
    /\ UNCHANGED <<inputStatus, inputData, dirExists, files, err, s, i, of, envMade>>

\* Variant of Mkdir: an existing directory is accepted (exist_ok).
Mkdir_ExistOk ==
    /\ pc = "mkdir"
    /\ pc' = "loop"
    /\ dirExists' = TRUE
    /\ UNCHANGED <<inputStatus, inputData, files, err, s, levels, i, of, envMade>>

\* os.mkdir(dir_name)
Mkdir ==
    /\ pc = "mkdir"
    /\ IF dirExists
       THEN /\ pc' = "error"
            /\ err' = "FileExistsError"
            /\ UNCHANGED <<dirExists, files>>
       ELSE /\ pc' = "loop"
            /\ err' = err
            /\ dirExists' = TRUE
            /\ files' = NoFiles
    /\ UNCHANGED <<inputStatus, inputData, s, levels, i, of, envMade>>

\* The loop ends: for i in range(len(levels)) is exhausted.
LoopExit ==
    /\ pc = "loop"
    /\ i = Len(levels)
    /\ pc' = "done"
    /\ UNCHANGED <<inputStatus, inputData, dirExists, files, err, s, levels, i, of, envMade>>

\* if levels[i] == '' or levels[i].isspace(): continue
Skip ==
    /\ pc = "loop"
    /\ i < Len(levels)
    /\ Skipped(levels[i + 1])
    /\ i' = i + 1
    /\ UNCHANGED <<inputStatus, inputData, dirExists, files, pc, err, s, levels, of, envMade>>

\* Variant of Open: the file is opened for appending, nothing is truncated.
Open_Append ==
    /\ pc = "loop"
    /\ i < Len(levels)
    /\ ~Skipped(levels[i + 1])
    /\ files' = IF FileName(i) \in DOMAIN files THEN files
                ELSE Put(files, FileName(i), << >>)
    /\ of' = FileName(i)
    /\ pc' = "write"
    /\ UNCHANGED <<inputStatus, inputData, dirExists, err, s, levels, i, envMade>>

\* of = open(path.join(dir_name, str(i + 1) + ".txt"), 'w'): the file is
\* created, or truncated when it is there already.
Open ==
    /\ pc = "loop"
    /\ i < Len(levels)
    /\ ~Skipped(levels[i + 1])
    /\ files' = Put(files, FileName(i), << >>)
    /\ of' = FileName(i)
    /\ pc' = "write"
    /\ UNCHANGED <<inputStatus, inputData, dirExists, err, s, levels, i, envMade>>

\* Variant of OpenFail: the failure removes what the run has made.
OpenFail_Rollback ==
    /\ pc = "loop"
    /\ i < Len(levels)
    /\ ~Skipped(levels[i + 1])
    /\ pc' = "error"
    /\ err' = "OSError"
    /\ files' = NoFiles
    /\ dirExists' = FALSE
    /\ UNCHANGED <<inputStatus, inputData, s, levels, i, of, envMade>>

\* open(..., 'w') raises OSError (permissions, no space): nothing changes.
OpenFail ==
    /\ pc = "loop"
    /\ i < Len(levels)
    /\ ~Skipped(levels[i + 1])
    /\ pc' = "error"
    /\ err' = "OSError"
    /\ UNCHANGED <<inputStatus, inputData, dirExists, files, s, levels, i, of, envMade>>

\* of.write(levels[i]): the text goes to the file object's buffer, which is
\* larger than any text of the model; nothing reaches the file yet.
Write ==
    /\ pc = "write"
    /\ pc' = "close"
    /\ UNCHANGED <<inputStatus, inputData, dirExists, files, err, s, levels, i, of, envMade>>

\* of.write or of.close raises OSError: the file keeps the part of the text
\* that had reached it, none or all of it.
WriteFail ==
    /\ pc \in {"write", "close"}
    /\ \E data \in {<< >>, TextWrite(levels[i + 1])} :
          files' = Put(files, of, data)
    /\ pc' = "error"
    /\ err' = "OSError"
    /\ UNCHANGED <<inputStatus, inputData, dirExists, s, levels, i, of, envMade>>

\* of.close(): the whole text is in the file; the loop goes on.
Close ==
    /\ pc = "close"
    /\ files' = Put(files, of, TextWrite(levels[i + 1]))
    /\ of' = 0
    /\ i' = i + 1
    /\ pc' = "loop"
    /\ UNCHANGED <<inputStatus, inputData, dirExists, err, s, levels, envMade>>

\* Another actor creates a file in the directory the run has made.
EnvCreate ==
    /\ pc \in {"loop", "write", "close"}
    /\ dirExists
    /\ \E k \in 1..Len(levels) :
          /\ k \notin DOMAIN files
          /\ k \notin envMade
          /\ files' = Put(files, k, EnvContent)
          /\ envMade' = envMade \cup {k}
    /\ UNCHANGED <<inputStatus, inputData, dirExists, pc, err, s, levels, i, of>>

Next ==
    \/ ReadInput
    \/ Split
    \/ Mkdir
    \/ LoopExit
    \/ Skip
    \/ Open
    \/ OpenFail
    \/ Write
    \/ WriteFail
    \/ Close

Spec == Init /\ [][Next]_vars

NextEnv == Next \/ EnvCreate

SpecEnv == Init /\ [][NextEnv]_vars

-----------------------------------------------------------------------------
(* The properties.                                                         *)

\* re.split has just returned: s is the buffer and levels its result.
Splitted == pc = "mkdir"

\* os.mkdir has made the directory in this run.
Made ==
    \/ pc \in {"loop", "write", "close", "done"}
    \/ pc = "error" /\ err = "OSError"

\* A segment that is neither empty nor made of spaces, tabs and newlines only.
NonBlank(seg) == \E c \in 1..Len(seg) : seg[c] \notin {" ", "\t", "\n"}

\* A delimiter occurrence starts at j: a ';', the rest of its line, the
\* newline that ends the line and one more newline.
IsDelimAt(str, j) ==
    /\ j \in 1..Len(str)
    /\ str[j] = ";"
    /\ \E e \in j..Len(str) :
          /\ \A m \in (j + 1)..e : str[m] # "\n"
          /\ e + 2 <= Len(str)
          /\ str[e + 1] = "\n"
          /\ str[e + 2] = "\n"

\* The position after the occurrence that starts at j.
DelimEnd(str, j) ==
    (CHOOSE e \in j..Len(str) :
        /\ \A m \in (j + 1)..e : str[m] # "\n"
        /\ e + 2 <= Len(str)
        /\ str[e + 1] = "\n"
        /\ str[e + 2] = "\n") + 3

\* The leftmost, non-overlapping occurrences: those that do not start inside
\* an earlier one.  (Occurrences overlap only when they start on the same
\* line, and then the first ';' of the line starts one that covers the rest.)
Occ(str) ==
    {j \in 1..Len(str) :
        /\ IsDelimAt(str, j)
        /\ ~ \E h \in 1..(j - 1) : IsDelimAt(str, h) /\ j < DelimEnd(str, h)}

\* The k-th smallest element of a set of positions.
Nth(D, k) == CHOOSE j \in D : Cardinality({h \in D : h < j}) = k - 1

C2_FilesIffNonBlank ==
    pc = "done" =>
        /\ dirExists
        /\ DOMAIN files \subseteq 1..Len(levels)
        /\ \A k \in 1..Len(levels) : k \in DOMAIN files <=> NonBlank(levels[k])

\* A run that ended normally with a gap in the names: an all-whitespace
\* segment before a written one.
C2_Witness ==
    /\ pc = "done"
    /\ \E k \in 1..Len(levels) :
          /\ levels[k] # << >>
          /\ ~NonBlank(levels[k])
          /\ k \notin DOMAIN files
          /\ k + 1 \in DOMAIN files

\* C3: after a run that ends normally every file k.txt holds segment k
\* character for character.
C3_ContentVerbatim ==
    pc = "done" => \A k \in DOMAIN files : files[k] = levels[k]

\* A written segment with whitespace at both ends and a newline inside.
C3_Witness ==
    /\ pc = "done"
    /\ \E k \in DOMAIN files :
          /\ Len(files[k]) >= 4
          /\ files[k][1] = " "
          /\ files[k][Len(files[k])] = "\n"
          /\ \E c \in 2..(Len(files[k]) - 1) : files[k][c] = "\n"

\* C4: when the directory exists before os.mkdir runs, no step of the run
\* changes the directory or its files, os.mkdir ends the run with
\* FileExistsError, and nothing follows the error.
C4_ExistingDirFails ==
    [][ /\ (pc \in {"read", "split", "mkdir"} /\ dirExists) =>
              /\ UNCHANGED <<dirExists, files>>
              /\ pc = "mkdir" => (pc' = "error" /\ err' = "FileExistsError")
        /\ pc = "error" => UNCHANGED vars ]_vars

\* The run has failed on a directory that held a file, with segments to write.
C4_Witness ==
    /\ pc = "error"
    /\ err = "FileExistsError"
    /\ files = (1 :> EnvContent)
    /\ \E k \in 1..Len(levels) : NonBlank(levels[k])

\* C5: a ';' that is not the first character of its line starts no
\* delimiter: a buffer whose ';' are all inside lines is one segment.
C5_MarkerOnlyAtLineStart ==
    Splitted =>
        ((\A j \in 1..Len(s) : s[j] = ";" => (j > 1 /\ s[j - 1] # "\n"))
            => levels = <<s>>)

\* C6: when opening or writing the file of segment k fails, the run stops
\* there: the directory is still there, every surviving segment before k has
\* its file with its whole content, and no file has an ordinal above k.
C6_State ==
    (pc = "error" /\ err = "OSError") =>
        /\ dirExists
        /\ \A k \in 1..i :
              NonBlank(levels[k]) => (k \in DOMAIN files /\ files[k] = levels[k])
        /\ \A k \in DOMAIN files : k <= i + 1

C6_WriteFailureKeepsFiles ==
    /\ []C6_State
    /\ [][pc = "error" => UNCHANGED vars]_vars

\* The write of the second segment failed with the first file written and a
\* third segment still to come.
C6_Witness ==
    /\ pc = "error"
    /\ err = "OSError"
    /\ \E k \in 1..i : k \in DOMAIN files /\ files[k] = levels[k]
    /\ of = i + 1
    /\ Len(levels) >= i + 2

\* The start of the line that holds position j is a marker line: j is the
\* first position of a line and holds ';'.
MarkerLineAt(str, j) ==
    /\ j \in 1..Len(str)
    /\ str[j] = ";"
    /\ (j = 1 \/ str[j - 1] = "\n")

\* The position of the newline that ends the line starting at j, or 0.
LineEnd(str, j) ==
    IF \E e \in j..Len(str) : str[e] = "\n"
    THEN CHOOSE e \in j..Len(str) :
            str[e] = "\n" /\ \A m \in j..(e - 1) : str[m] # "\n"
    ELSE 0

\* The number of empty lines that follow the newline at position e.
EmptyLinesAfter(str, e) ==
    Cardinality({c \in (e + 1)..Len(str) : \A m \in (e + 1)..c : str[m] = "\n"})

\* C7: a marker line followed by k >= 1 empty lines ends a segment just
\* before it, and the next segment starts after one empty line, so it begins
\* with exactly k-1 newlines; a marker line followed by a line that is not
\* empty lies, newline included, inside one segment.
C7_OneBlankLine ==
    Splitted =>
        LET spans == SplitSpans(s, 1)
        IN  \A j \in 1..Len(s) :
               (MarkerLineAt(s, j) /\ LineEnd(s, j) # 0) =>
                  LET e == LineEnd(s, j)
                      k == EmptyLinesAfter(s, e)
                  IN  /\ k >= 1 =>
                         \E m \in 1..(Len(levels) - 1) :
                            /\ spans[m][2] = j - 1
                            /\ spans[m + 1][1] = e + 2
                            /\ Len(levels[m + 1]) >= k - 1
                            /\ \A c \in 1..(k - 1) : levels[m + 1][c] = "\n"
                            /\ Len(levels[m + 1]) >= k => levels[m + 1][k] # "\n"
                      /\ (k = 0 /\ e < Len(s)) =>
                         \E m \in 1..Len(levels) :
                            /\ spans[m][1] <= j
                            /\ e <= spans[m][2]

\* A marker line followed by three empty lines: the next segment begins with
\* the two newlines the delimiter left.
C7_Witness ==
    /\ Splitted
    /\ MarkerLineAt(s, 1)
    /\ LineEnd(s, 1) = 2
    /\ EmptyLinesAfter(s, 2) = 3
    /\ Len(levels) = 2
    /\ Len(levels[2]) >= 3
    /\ SubSeq(levels[2], 1, 3) = <<"\n", "\n", "A">>

\* C8: when the input cannot be opened, the only step of the run ends it,
\* and the directory and its files are as they were.
C8_InputErrorNoChange ==
    [][inputStatus # "ok" =>
          /\ pc' = "error"
          /\ err' \in {"FileNotFoundError", "PermissionError"}
          /\ UNCHANGED <<dirExists, files>> ]_vars

\* The run has failed on its input and no directory exists.
C8_Witness ==
    /\ pc = "error"
    /\ err \in {"FileNotFoundError", "PermissionError"}
    /\ ~dirExists
    /\ files = NoFiles

\* C9, as stated: when the file of the segment about to be written is in the
\* directory already, the step that opens it fails and leaves it as it is.
C9_ExistingFileFails ==
    [][(pc = "loop" /\ pc' \in {"write", "error"} /\ i + 1 \in DOMAIN files)
          => (pc' = "error" /\ files' = files)]_vars

\* C9, amended: open(..., 'w') truncates a file that is there already, and
\* when the file is closed it holds the segment, whatever it held before.
C9_ExistingFileOverwritten ==
    [][ /\ (pc = "loop" /\ pc' = "write") =>
              (i + 1 \in DOMAIN files' /\ files'[i + 1] = << >>)
        /\ (pc = "close" /\ pc' = "loop") =>
              (i + 1 \in DOMAIN files' /\ files'[i + 1] = levels[i + 1]) ]_vars

\* The run ended normally and a file another actor had made holds a segment.
C9_Witness ==
    /\ pc = "done"
    /\ \E k \in envMade : k \in DOMAIN files /\ files[k] = levels[k]

\* The files that the loop at position i has finished: the surviving
\* segments with ordinal below the current one.
Finished == {k \in 1..i : NonBlank(levels[k])}

\* C10, as stated: once the directory is made, the files present are at
\* every state exactly the surviving segments below the loop's position.
C10_FilesBelowPosition ==
    Made => DOMAIN files = Finished

\* The order of the statements.
PcOrder ==
    {<<"read", "split">>, <<"read", "error">>, <<"split", "mkdir">>,
     <<"mkdir", "loop">>, <<"mkdir", "error">>, <<"loop", "loop">>,
     <<"loop", "write">>, <<"loop", "error">>, <<"loop", "done">>,
     <<"write", "close">>, <<"write", "error">>, <<"close", "loop">>,
     <<"close", "error">>}

\* C10, amended: the statements run in their order; the input is read and
\* the directory made once; a file is opened only when no file is open and
\* every file present has a lower ordinal and its whole content; and once
\* the directory is made the files present are the surviving segments below
\* the loop's position, together with the file of the segment at the loop's
\* position from the moment it is opened.
C10_State ==
    Made =>
        /\ DOMAIN files = Finished \cup (IF of = 0 THEN {} ELSE {of})
        /\ of # 0 => (of = i + 1 /\ i < Len(levels) /\ NonBlank(levels[i + 1]))
        /\ \A k \in Finished : files[k] = levels[k]

C10_Order ==
    /\ <<pc, pc'>> \in PcOrder
    /\ s' # s => pc = "read"
    /\ levels' # levels => pc = "split"
    /\ dirExists' # dirExists => (pc = "mkdir" /\ dirExists')
    /\ i' \in {i, i + 1}
    /\ of' # of =>
          \/ /\ pc = "loop" /\ of = 0 /\ of' = i + 1
             /\ \A k \in DOMAIN files : k < of' /\ files[k] = levels[k]
          \/ pc = "close" /\ of' = 0

C10_OrderedWrites ==
    /\ []C10_State
    /\ [][C10_Order]_vars

\* The second file of a run is open while the first is in the directory.
C10_Witness ==
    /\ pc = "write"
    /\ of >= 2
    /\ \E k \in 1..(of - 1) : k \in DOMAIN files /\ files[k] = levels[k]

====
